---- MODULE Spec2Model ----
(***************************************************************************)
(* The resumable pipeline orchestrator of synda (AsyncPipeline) as a state *)
(* machine: the run/step ledger, the node store, one orchestrator object   *)
(* and the call stack of execute / retry / resume with the two decorators  *)
(* handle_run_errors and handle_stop_option around every entry point.      *)
(*                                                                         *)
(* Usage protocol: execute() is the first call made on a freshly built     *)
(* orchestrator (AsyncPipeline(config).execute_sync()); retry and resume   *)
(* may be called on any live orchestrator, any number of times.            *)
(***************************************************************************)
EXTENDS Integers, Sequences, FiniteSets, TLC

(* ------------------------------ bounds -------------------------------- *)
NumSteps == 3
NumRoots == 2
MaxEvents == 5
MaxRuns == MaxEvents \div 2

VARIABLES
  run_status,      \* ledger: Run.status per run id ("ABSENT" before creation)
  step_status,     \* ledger: Step.status per step id
  failed_order,    \* ledger: step ids in the order they were last marked ERRORED
  node_store,      \* Node table: records [id, parent_node_id, ablated]
  step_node,       \* StepNode link table: [step_id, node_id, relationship_type]
  alive,           \* an orchestrator object exists in a live process
  fresh,           \* no entry point has been called on it yet
  self_run,        \* self.run (0 = None)
  self_config,     \* self.config is not None
  session,         \* self.session: "none", "open" or "closed"
  frames,          \* call stack of decorated entry points, innermost last
  pc,              \* position of the innermost frame
  exc,             \* exception in flight
  input_nodes,     \* loop variable input_nodes of execute / _execute_remaining_steps
  restart_nodes,   \* local input_nodes of _restart_from_step
  remaining_steps, \* steps the loop has not entered yet
  cur_step,        \* step being executed by the executor (0 = none)
  is_first_remaining_step,
  nodes_to_process,
  processed_nodes,
  output_nodes,    \* nodes the transformation has produced so far in this step
  executor_batch_size, \* batch_size handed to the running executor (0 = None or not handed)
  outcome,         \* how the last top-level call ended
  call_op,         \* entry point of the current / last top-level call
  entered,         \* step ids set RUNNING during the current top-level call
  int_log,         \* interruptions of the current top-level call
  fail_log,        \* failures raised during the current top-level call
  saved,           \* every invocation of output_saver.save
  calls,           \* (step, node) pairs the transformation was invoked on
  dup_calls,       \* pairs it was invoked on more than once
  last_step,       \* what the last completed step was given and returned
  node_get,        \* arguments and result of the last Node.get call
  n_events         \* constructions, top-level calls, failures, interruptions and ablations so far

ledger == <<run_status, step_status, failed_order>>
store == <<node_store, step_node>>
object == <<alive, fresh, self_run, self_config>>
locals == <<input_nodes, restart_nodes, remaining_steps, cur_step,
            is_first_remaining_step, nodes_to_process, processed_nodes, output_nodes,
            executor_batch_size>>
history == <<outcome, call_op, entered, int_log, fail_log, saved, calls, dup_calls, last_step>>
budget == <<n_events>>
vars == <<ledger, store, object, session, frames, pc, exc, locals, history, node_get, budget>>

(* --------------------------- identifiers ------------------------------ *)
RunIds == 1..MaxRuns
StepIds == 1..(MaxRuns * NumSteps)
StepId(run, pos) == (run - 1) * NumSteps + pos
StepRun(s) == ((s - 1) \div NumSteps) + 1
StepPos(s) == ((s - 1) % NumSteps) + 1
StepsOfRun(run) == [p \in 1..NumSteps |-> StepId(run, p)]

IdBase == MaxRuns * NumRoots
RootIds(run) == {(run - 1) * NumRoots + r : r \in 1..NumRoots}

RECURSIVE Pow2(_)
Pow2(n) == IF n = 0 THEN 1 ELSE 2 * Pow2(n - 1)

\* id of the node a step at position pos derives from node id
ChildId(id, pos) == id + Pow2(pos - 1) * IdBase

Ids(ns) == {n.id : n \in ns}
MinOf(S) == CHOOSE x \in S : \A y \in S : x <= y

\* a Node row, and the same node held in memory with its status attribute
Row(n) == [id |-> n.id, parent_node_id |-> n.parent_node_id, ablated |-> n.ablated]
Mem(n, st) == [id |-> n.id, parent_node_id |-> n.parent_node_id,
               ablated |-> n.ablated, status |-> st]

\* no Node.get call made
NoGet == [node_ids |-> [int |-> FALSE, value |-> {}], returned |-> [type |-> "none", value |-> {}]]

NoStep == [step |-> 0, first |-> FALSE, restart |-> FALSE, input |-> {},
           to_process |-> {}, passed |-> {}, invoked |-> {}, result |-> {}]

(* ------------------------------ Node ---------------------------------- *)
\* Node.get_input_nodes_from_step: the input-linked nodes of a step, each tagged
\* "treated" when some node's parent_node_id is its id
get_input_nodes_from_step(step) ==
  LET input_nodes_for_steps ==
        {n \in node_store :
           \E l \in step_node : /\ l.node_id = n.id
                                /\ l.step_id = step
                                /\ l.relationship_type = "input"}
      already_treated_input_nodes_ids ==
        {n.parent_node_id : n \in {m \in node_store :
                                     m.parent_node_id \in Ids(input_nodes_for_steps)}}
  IN {<<n, IF n.id \in already_treated_input_nodes_ids THEN "treated" ELSE "not_treated">>
        : n \in input_nodes_for_steps}

(* ------------------------- Run / Step ledger -------------------------- *)
\* Step.get_last_failed: the most recently errored step, 0 when there is none
get_last_failed ==
  LET idx == {i \in 1..Len(failed_order) : step_status[failed_order[i]] = "ERRORED"}
  IN IF idx = {} THEN 0
     ELSE failed_order[CHOOSE i \in idx : \A j \in idx : j <= i]

\* Step.get_step_to_resume: earliest RUNNING or ERRORED step of the run, 0 = NotFound
get_step_to_resume(run_id) ==
  LET cand == IF run_id \in RunIds
              THEN {s \in StepIds : /\ StepRun(s) = run_id
                                    /\ step_status[s] \in {"RUNNING", "ERRORED"}}
              ELSE {}
  IN IF cand = {} THEN 0 ELSE MinOf(cand)

\* Run.restart_from_step: (run, input nodes of the step with their status, steps from it on)
restart_from_step(step) ==
  [run |-> StepRun(step),
   input_nodes |-> {Mem(t[1], IF t[2] = "treated" THEN "PROCESSED" ELSE "PENDING")
                      : t \in get_input_nodes_from_step(step)},
   remaining_steps |-> SubSeq(StepsOfRun(StepRun(step)), StepPos(step), NumSteps)]

\* a Run.update that writes the new status whatever the current one is
update_unchecked(run, newStatus) == [run_status EXCEPT ![run] = newStatus]

\* Run.update: the status transition of a run; a FINISHED run takes no further transition
update(run, newStatus) ==
  IF run_status[run] = "FINISHED"
    THEN run_status
    ELSE [run_status EXCEPT ![run] = newStatus]

\* InputLoader.load: the root nodes of a run
load(run) ==
  {[id |-> i, parent_node_id |-> 0, ablated |-> FALSE, status |-> "PENDING"] : i \in RootIds(run)}

\* the transformation of a step applied to one node
transform(step, n) ==
  [id |-> ChildId(n.id, StepPos(step)), parent_node_id |-> n.id,
   ablated |-> FALSE, status |-> "PENDING"]

\* the run ids handed out so far are 1..NumRunsCreated
NumRunsCreated == Cardinality({r \in RunIds : run_status[r] # "ABSENT"})

Top == frames[Len(frames)]

FreshCall(op) ==
  /\ call_op' = op
  /\ outcome' = "running"
  /\ entered' = <<>>
  /\ int_log' = <<>>
  /\ fail_log' = <<>>
  /\ last_step' = NoStep
  /\ n_events' = n_events + 1
  /\ UNCHANGED <<saved, calls, dup_calls>>

ClearLocals ==
  /\ input_nodes' = {}
  /\ restart_nodes' = {}
  /\ remaining_steps' = <<>>
  /\ cur_step' = 0
  /\ is_first_remaining_step' = FALSE
  /\ nodes_to_process' = {}
  /\ processed_nodes' = {}
  /\ output_nodes' = {}
  /\ executor_batch_size' = 0

\* an empty database and no orchestrator object yet
Init ==
    /\ run_status = [r \in RunIds |-> "ABSENT"]
    /\ step_status = [s \in StepIds |-> "ABSENT"]
    /\ failed_order = <<>>
    /\ node_store = {}
    /\ step_node = {}
    /\ alive = FALSE
    /\ fresh = FALSE
    /\ self_run = 0
    /\ self_config = FALSE
    /\ session = "none"
    /\ frames = <<>>
    /\ pc = "idle"
    /\ exc = "none"
    /\ input_nodes = {}
    /\ restart_nodes = {}
    /\ remaining_steps = <<>>
    /\ cur_step = 0
    /\ is_first_remaining_step = FALSE
    /\ nodes_to_process = {}
    /\ processed_nodes = {}
    /\ output_nodes = {}
    /\ executor_batch_size = 0
    /\ outcome = "none"
    /\ call_op = "none"
    /\ entered = <<>>
    /\ int_log = <<>>
    /\ fail_log = <<>>
    /\ saved = <<>>
    /\ calls = {}
    /\ dup_calls = {}
    /\ last_step = NoStep
    /\ node_get = NoGet
    /\ n_events = 0

(* --------------------------- construction ----------------------------- *)
\* Run.create_with_steps: a new run, RUNNING, with one PENDING step per stage
create_with_steps(run) ==
  /\ run_status' = [run_status EXCEPT ![run] = "RUNNING"]
  /\ step_status' = [s \in StepIds |-> IF StepRun(s) = run THEN "PENDING" ELSE step_status[s]]
  /\ UNCHANGED failed_order

\* AsyncPipeline.__init__ in a new process, with or without a config
__init__(with_config) ==
  /\ pc = "idle"
  /\ ~fresh
  /\ n_events < MaxEvents
  /\ IF with_config
       THEN /\ \E r \in RunIds : run_status[r] = "ABSENT"
            /\ LET run == MinOf({r \in RunIds : run_status[r] = "ABSENT"})
               IN /\ create_with_steps(run)
                  /\ self_run' = run
       ELSE /\ self_run' = 0
            /\ UNCHANGED ledger
  /\ self_config' = with_config
  /\ session' = "open"
  /\ alive' = TRUE
  /\ fresh' = TRUE
  /\ outcome' = "none"
  /\ call_op' = "none"
  /\ entered' = <<>>
  /\ int_log' = <<>>
  /\ fail_log' = <<>>
  /\ last_step' = NoStep
  /\ n_events' = n_events + 1
  /\ UNCHANGED <<store, frames, pc, exc, locals, saved, calls, dup_calls>>
  /\ UNCHANGED node_get

(* ------------------------- top-level entry ---------------------------- *)
\* batch_size arguments tried: None (0) and a size
BatchSizes == {0, 2}

execute_sync(batch_size) ==
  /\ pc = "idle" /\ alive /\ fresh
  /\ n_events < MaxEvents
  /\ frames' = <<[op |-> "execute", run_id |-> 0, batch_size |-> batch_size]>>
  /\ pc' = "start"
  /\ fresh' = FALSE
  /\ FreshCall("execute")
  /\ UNCHANGED <<ledger, store, alive, self_run, self_config, exc, locals>>
  /\ UNCHANGED <<session, node_get>>

retry_sync(batch_size) ==
  /\ pc = "idle" /\ alive
  /\ n_events < MaxEvents
  /\ frames' = <<[op |-> "retry", run_id |-> 0, batch_size |-> batch_size]>>
  /\ pc' = "start"
  /\ fresh' = FALSE
  /\ FreshCall("retry")
  /\ UNCHANGED <<ledger, store, alive, self_run, self_config, exc, locals>>
  /\ UNCHANGED <<session, node_get>>

resume_sync(run_id, batch_size) ==
  /\ pc = "idle" /\ alive
  /\ n_events < MaxEvents
  /\ frames' = <<[op |-> "resume", run_id |-> run_id, batch_size |-> batch_size]>>
  /\ pc' = "start"
  /\ fresh' = FALSE
  /\ FreshCall("resume")
  /\ UNCHANGED <<ledger, store, alive, self_run, self_config, exc, locals>>
  /\ UNCHANGED <<session, node_get>>

(* --------------------------- the executor ----------------------------- *)
\* hasattr(executor, 'execute_async'): the steps at odd positions are configured with an
\* async-capable executor, the others with a synchronous one
has_execute_async(step) == StepPos(step) % 2 = 1

\* a failure raised inside the body of an entry point
Raise(kind) ==
  /\ pc' = "raise"
  /\ exc' = "Exception"
  /\ fail_log' = Append(fail_log, kind)
  /\ ClearLocals

\* executor, on entry: the step is marked RUNNING and its input nodes are recorded
set_running(step, nodes) ==
  /\ step_status' = [step_status EXCEPT ![step] = "RUNNING"]
  /\ step_node' = step_node \cup
       {[step_id |-> step, node_id |-> i, relationship_type |-> "input"] : i \in Ids(nodes)}
  /\ UNCHANGED <<run_status, failed_order, node_store>>

\* one iteration of the step loop: hand the next step to its executor
EnterStep(to_process, passed) ==
  LET step == Head(remaining_steps)
  IN /\ set_running(step, to_process \cup passed)
     /\ cur_step' = step
     /\ remaining_steps' = Tail(remaining_steps)
     /\ nodes_to_process' = to_process
     /\ processed_nodes' = passed
     /\ output_nodes' = {}
     /\ executor_batch_size' = IF has_execute_async(step) THEN Top.batch_size ELSE 0
     /\ entered' = Append(entered, step)
     /\ pc' = "step"
     /\ UNCHANGED <<object, frames, exc, input_nodes, restart_nodes, is_first_remaining_step,
                    outcome, call_op, int_log, fail_log, saved, calls, dup_calls, last_step,
                    budget>>

Todo ==
  {n \in nodes_to_process : transform(cur_step, n).id \notin Ids(output_nodes)}

\* executor: the transformation is invoked on the next node to process; the step may
\* mark the node it derives as ablated
executor_execute ==
  /\ pc = "step"
  /\ Todo # {}
  /\ \E ablated \in BOOLEAN :
       LET n == CHOOSE m \in Todo : \A k \in Todo : m.id <= k.id
           child == [transform(cur_step, n) EXCEPT !.ablated = ablated]
       IN /\ ablated => n_events < MaxEvents
          /\ n_events' = IF ablated THEN n_events + 1 ELSE n_events
          /\ node_store' = node_store \cup {Row(child)}
          /\ output_nodes' = output_nodes \cup {child}
          /\ calls' = calls \cup {<<cur_step, n.id>>}
          /\ dup_calls' = IF <<cur_step, n.id>> \in calls
                            THEN dup_calls \cup {<<cur_step, n.id>>} ELSE dup_calls
  /\ UNCHANGED <<ledger, step_node, object, frames, pc, exc, input_nodes, restart_nodes,
                 remaining_steps, cur_step, is_first_remaining_step, nodes_to_process,
                 processed_nodes, executor_batch_size, outcome, call_op, entered, int_log,
                 fail_log, saved, last_step>>
  /\ UNCHANGED <<session, node_get>>

\* executor, on success: PROCESSED, output links persisted, processed + passthrough
\* returned to the loop, which assigns it to input_nodes (and clears the first-step flag)
executor_set_completed ==
  /\ pc = "step"
  /\ Todo = {}
  /\ LET result == output_nodes \cup processed_nodes
     IN /\ step_status' = [step_status EXCEPT ![cur_step] = "PROCESSED"]
        /\ step_node' = step_node \cup
             {[step_id |-> cur_step, node_id |-> i, relationship_type |-> "output"]
                : i \in Ids(result)}
        /\ input_nodes' = result
        /\ last_step' = [step |-> cur_step, first |-> is_first_remaining_step,
                         restart |-> Top.op # "execute", input |-> input_nodes,
                         to_process |-> nodes_to_process, passed |-> processed_nodes,
                         invoked |-> {n.parent_node_id : n \in output_nodes},
                         result |-> result]
  /\ is_first_remaining_step' = FALSE
  /\ cur_step' = 0
  /\ nodes_to_process' = {}
  /\ processed_nodes' = {}
  /\ output_nodes' = {}
  /\ executor_batch_size' = 0
  /\ pc' = "loop"
  /\ UNCHANGED <<run_status, failed_order, node_store, object, frames, exc, restart_nodes,
                 remaining_steps, outcome, call_op, entered, int_log, fail_log, saved,
                 calls, dup_calls, budget>>
  /\ UNCHANGED <<session, node_get>>

\* executor, on failure: ERRORED, persisted, and the failure propagates
executor_set_errored ==
  /\ pc = "step"
  /\ n_events < MaxEvents
  /\ step_status' = [step_status EXCEPT ![cur_step] = "ERRORED"]
  /\ failed_order' = Append(SelectSeq(failed_order, LAMBDA s : s # cur_step), cur_step)
  /\ n_events' = n_events + 1
  /\ Raise("step")
  /\ UNCHANGED <<run_status, store, object, frames, outcome, call_op, entered, int_log,
                 saved, calls, dup_calls, last_step>>
  /\ UNCHANGED <<session, node_get>>

(* ----------------------------- execute -------------------------------- *)
\* execute, up to the step loop: the config check and input_loader.load
execute ==
  /\ pc = "start"
  /\ Top.op = "execute"
  /\ IF ~self_config
       THEN /\ Raise("config")
            /\ UNCHANGED <<node_store, n_events>>
       ELSE \/ /\ node_store' = node_store \cup {Row(n) : n \in load(self_run)}
               /\ input_nodes' = load(self_run)
               /\ remaining_steps' = StepsOfRun(self_run)
               /\ pc' = "loop"
               /\ UNCHANGED <<exc, fail_log, n_events, restart_nodes, cur_step,
                              is_first_remaining_step, nodes_to_process, processed_nodes,
                              output_nodes, executor_batch_size>>
            \/ /\ n_events < MaxEvents
               /\ n_events' = n_events + 1
               /\ Raise("load")
               /\ UNCHANGED node_store
  /\ UNCHANGED <<ledger, step_node, object, frames, outcome, call_op, entered, int_log,
                 saved, calls, dup_calls, last_step>>
  /\ UNCHANGED <<session, node_get>>

\* a step loop that hands every step the loaded input instead of the previous step's output
execute_loop_stale_input ==
  /\ pc = "loop"
  /\ Top.op = "execute"
  /\ IF remaining_steps # <<>>
       THEN EnterStep(load(self_run), {})
       ELSE /\ pc' = "save"
            /\ UNCHANGED <<ledger, store, object, frames, exc, locals, history, budget>>
  /\ UNCHANGED <<session, node_get>>

\* execute, the step loop: every step gets the whole current node set
execute_loop ==
  /\ pc = "loop"
  /\ Top.op = "execute"
  /\ IF remaining_steps # <<>>
       THEN EnterStep(input_nodes, {})
       ELSE /\ pc' = "save"
            /\ UNCHANGED <<ledger, store, object, frames, exc, locals, history, budget>>
  /\ UNCHANGED <<session, node_get>>

(* ------------------------- retry and resume --------------------------- *)
\* a _prepare_nodes that forgets the status partition of the first remaining step
_prepare_nodes_all_pending(nodes, is_first_step) == <<nodes, {}>>

\* a _prepare_nodes whose second branch is an else: whatever is not PROCESSED is to process
_prepare_nodes_else_pending(nodes, is_first_step) ==
  IF ~is_first_step
    THEN <<nodes, {}>>
    ELSE <<{n \in nodes : n.status # "PROCESSED"}, {n \in nodes : n.status = "PROCESSED"}>>

\* _prepare_nodes: (nodes to process, nodes already processed)
_prepare_nodes(nodes, is_first_step) ==
  IF ~is_first_step
    THEN <<nodes, {}>>
    ELSE <<{n \in nodes : n.status = "PENDING"}, {n \in nodes : n.status = "PROCESSED"}>>

\* _restart_from_step, up to the step loop: the orchestrator is rebuilt from the ledger
_restart_from_step(step) ==
  LET r == restart_from_step(step)
  IN /\ self_run' = r.run
     /\ self_config' = TRUE
     /\ input_nodes' = r.input_nodes
     /\ restart_nodes' = r.input_nodes
     /\ remaining_steps' = r.remaining_steps
     /\ is_first_remaining_step' = TRUE
     /\ pc' = "loop"
     /\ UNCHANGED <<exc, fail_log, cur_step, nodes_to_process, processed_nodes, output_nodes,
                    executor_batch_size>>

retry ==
  /\ pc = "start"
  /\ Top.op = "retry"
  /\ LET last_failed_step == get_last_failed
     IN IF last_failed_step = 0
          THEN Raise("not_found") /\ UNCHANGED <<self_run, self_config>>
          ELSE _restart_from_step(last_failed_step)
  /\ UNCHANGED <<ledger, store, alive, fresh, frames, outcome, call_op, entered, int_log,
                 saved, calls, dup_calls, last_step, budget>>
  /\ UNCHANGED <<session, node_get>>

\* a resume that restarts the run from its first step instead of its resume point
resume_from_first_step ==
  /\ pc = "start"
  /\ Top.op = "resume"
  /\ LET resumed_step == get_step_to_resume(Top.run_id)
     IN IF resumed_step = 0
          THEN Raise("not_found") /\ UNCHANGED <<self_run, self_config>>
          ELSE _restart_from_step(StepId(StepRun(resumed_step), 1))
  /\ UNCHANGED <<ledger, store, alive, fresh, frames, outcome, call_op, entered, int_log,
                 saved, calls, dup_calls, last_step, budget>>
  /\ UNCHANGED <<session, node_get>>

resume ==
  /\ pc = "start"
  /\ Top.op = "resume"
  /\ LET resumed_step == get_step_to_resume(Top.run_id)
     IN IF resumed_step = 0
          THEN Raise("not_found") /\ UNCHANGED <<self_run, self_config>>
          ELSE _restart_from_step(resumed_step)
  /\ UNCHANGED <<ledger, store, alive, fresh, frames, outcome, call_op, entered, int_log,
                 saved, calls, dup_calls, last_step, budget>>
  /\ UNCHANGED <<session, node_get>>

\* a restart loop that saves the output itself before _restart_from_step finalizes the run
_execute_remaining_steps_saving ==
  /\ pc = "loop"
  /\ Top.op \in {"retry", "resume"}
  /\ IF remaining_steps # <<>>
       THEN LET prepared == _prepare_nodes(input_nodes, is_first_remaining_step)
            IN EnterStep(prepared[1], prepared[2])
       ELSE /\ pc' = "save"
            /\ saved' = Append(saved, [run |-> self_run, op |-> Top.op,
                                       ids |-> Ids(input_nodes), finished |-> FALSE])
            /\ UNCHANGED <<ledger, store, object, frames, exc, locals, outcome, call_op,
                           entered, int_log, fail_log, calls, dup_calls, last_step, budget>>
  /\ UNCHANGED <<session, node_get>>

\* _execute_remaining_steps: the step loop of a restart
_execute_remaining_steps ==
  /\ pc = "loop"
  /\ Top.op \in {"retry", "resume"}
  /\ IF remaining_steps # <<>>
       THEN LET prepared == _prepare_nodes(input_nodes, is_first_remaining_step)
            IN EnterStep(prepared[1], prepared[2])
       ELSE /\ pc' = "save"
            /\ UNCHANGED <<ledger, store, object, frames, exc, locals, history, budget>>
  /\ UNCHANGED <<session, node_get>>

(* ---------------------------- finalization ---------------------------- *)
\* _finalize_run, first statement: output_saver.save(input_nodes)
_finalize_run_save(nodes) ==
  /\ pc = "save"
  /\ \/ /\ saved' = Append(saved, [run |-> self_run, op |-> Top.op, ids |-> Ids(nodes),
                                   finished |-> FALSE])
        /\ pc' = "mark"
        /\ UNCHANGED <<exc, fail_log, locals, n_events>>
     \/ /\ n_events < MaxEvents
        /\ n_events' = n_events + 1
        /\ Raise("save")
        /\ UNCHANGED saved
  /\ UNCHANGED <<ledger, store, object, frames, outcome, call_op, entered, int_log,
                 calls, dup_calls, last_step>>

\* execute hands the output of the last step to _finalize_run
execute_finalize ==
  /\ pc = "save"
  /\ Top.op = "execute"
  /\ _finalize_run_save(input_nodes)
  /\ UNCHANGED <<session, node_get>>

\* _restart_from_step hands its own input_nodes to _finalize_run
_restart_from_step_finalize ==
  /\ pc = "save"
  /\ Top.op \in {"retry", "resume"}
  /\ _finalize_run_save(restart_nodes)
  /\ UNCHANGED <<session, node_get>>

\* a _finalize_run that saves the output but never marks the run FINISHED
_finalize_run_update_skipped ==
  /\ pc = "mark"
  /\ pc' = "print"
  /\ UNCHANGED <<ledger, store, object, frames, exc, locals, history, budget>>
  /\ UNCHANGED <<session, node_get>>

\* _finalize_run, second statement: the run is marked FINISHED
_finalize_run_update ==
  /\ pc = "mark"
  /\ run_status' = update(self_run, "FINISHED")
  /\ saved' = [saved EXCEPT ![Len(saved)].finished = TRUE]
  /\ pc' = "print"
  /\ UNCHANGED <<step_status, failed_order, store, object, frames, exc, locals, outcome,
                 call_op, entered, int_log, fail_log, calls, dup_calls, last_step, budget>>
  /\ UNCHANGED <<session, node_get>>

\* _finalize_run, last statement, and the return of the entry point
_finalize_run_return ==
  /\ pc = "print"
  /\ pc' = "return"
  /\ ClearLocals
  /\ UNCHANGED <<ledger, store, object, frames, exc, history, budget>>
  /\ UNCHANGED <<session, node_get>>

\* a decorated entry point returns to its caller
wrapper_return ==
  /\ pc = "return"
  /\ frames' = SubSeq(frames, 1, Len(frames) - 1)
  /\ IF Len(frames) = 1
       THEN pc' = "idle" /\ outcome' = "returned"
       ELSE pc' = "return" /\ UNCHANGED outcome
  /\ UNCHANGED <<ledger, store, object, exc, locals, call_op, entered, int_log, fail_log,
                 saved, calls, dup_calls, last_step, budget>>
  /\ UNCHANGED <<session, node_get>>

(* ------------------- interruption and error handling ------------------ *)
Answers == {"y", "n", ""}
BodyPcs == {"start", "loop", "step", "save", "mark", "print"}

\* Ctrl+C while the body of an entry point runs
KeyboardInterrupt ==
  /\ pc \in BodyPcs
  /\ n_events < MaxEvents
  /\ n_events' = n_events + 1
  /\ int_log' = Append(int_log,
       [at |-> pc, step |-> cur_step, run |-> self_run, stop |-> FALSE,
        status_before |-> IF self_run = 0 THEN "none" ELSE run_status[self_run],
        boundary |-> IF /\ pc = "loop"
                        /\ remaining_steps # <<>>
                        /\ StepPos(Head(remaining_steps)) > 1
                        /\ step_status[Head(remaining_steps)] = "PENDING"
                       THEN Head(remaining_steps) ELSE 0])
  /\ pc' = "interrupted"
  /\ exc' = "KeyboardInterrupt"
  /\ ClearLocals
  /\ UNCHANGED <<ledger, store, object, frames, outcome, call_op, entered, fail_log, saved,
                 calls, dup_calls, last_step>>
  /\ UNCHANGED <<session, node_get>>

\* a gate that, on decline, starts execute again instead of resuming the run
handle_stop_option_reexecute(user_input) ==
  /\ pc = "interrupted"
  /\ IF self_run # 0
       THEN /\ int_log' = [int_log EXCEPT ![Len(int_log)].stop = (user_input = "y")]
            /\ IF user_input = "y"
                 THEN /\ run_status' = update(self_run, "STOPPED")
                      /\ exc' = "SystemExit"
                      /\ pc' = "raise"
                      /\ UNCHANGED frames
                 ELSE /\ frames' = Append(frames, [op |-> "execute", run_id |-> 0, batch_size |-> 0])
                      /\ exc' = "none"
                      /\ pc' = "start"
                      /\ UNCHANGED run_status
       ELSE /\ user_input = "n"
            /\ exc' = "none"
            /\ pc' = "return"
            /\ UNCHANGED <<run_status, frames, int_log>>
  /\ UNCHANGED <<step_status, failed_order, store, object, locals, outcome, call_op, entered,
                 fail_log, saved, calls, dup_calls, last_step, budget>>
  /\ UNCHANGED <<session, node_get>>

\* handle_stop_option: the confirmation gate
handle_stop_option(user_input) ==
  /\ pc = "interrupted"
  /\ IF self_run # 0
       THEN /\ int_log' = [int_log EXCEPT ![Len(int_log)].stop = (user_input = "y")]
            /\ IF user_input = "y"
                 THEN /\ run_status' = update(self_run, "STOPPED")
                      /\ exc' = "SystemExit"
                      /\ pc' = "raise"
                      /\ UNCHANGED frames
                 ELSE /\ frames' = Append(frames, [op |-> "resume", run_id |-> self_run, batch_size |-> 0])
                      /\ exc' = "none"
                      /\ pc' = "start"
                      /\ UNCHANGED run_status
       ELSE /\ user_input = "n"   \* no prompt is read: the interruption is dropped
            /\ exc' = "none"
            /\ pc' = "return"
            /\ UNCHANGED <<run_status, frames, int_log>>
  /\ UNCHANGED <<step_status, failed_order, store, object, locals, outcome, call_op, entered,
                 fail_log, saved, calls, dup_calls, last_step, budget>>
  /\ UNCHANGED <<session, node_get>>

\* a handle_run_errors that re-raises without recording the failure on the run
handle_run_errors_no_update ==
  /\ pc = "raise"
  /\ UNCHANGED run_status
  /\ frames' = SubSeq(frames, 1, Len(frames) - 1)
  /\ IF Len(frames) = 1
       THEN /\ pc' = "idle"
            /\ exc' = "none"
            /\ outcome' = (IF exc = "SystemExit" THEN "exited" ELSE "raised")
            /\ IF exc = "SystemExit"   \* the process ends and its connections with it
                 THEN /\ alive' = FALSE /\ self_run' = 0 /\ self_config' = FALSE
                      /\ session' = "closed"
                 ELSE UNCHANGED <<alive, self_run, self_config, session>>
       ELSE UNCHANGED <<pc, exc, outcome, alive, self_run, self_config, session>>
  /\ UNCHANGED <<step_status, failed_order, store, fresh, locals, call_op, entered, int_log,
                 fail_log, saved, calls, dup_calls, last_step, budget>>
  /\ UNCHANGED node_get

\* handle_run_errors: an exception leaves one decorated entry point
handle_run_errors ==
  /\ pc = "raise"
  /\ IF exc = "Exception" /\ self_run # 0
       THEN run_status' = update(self_run, "ERRORED")
       ELSE UNCHANGED run_status
  /\ frames' = SubSeq(frames, 1, Len(frames) - 1)
  /\ IF Len(frames) = 1
       THEN /\ pc' = "idle"
            /\ exc' = "none"
            /\ outcome' = (IF exc = "SystemExit" THEN "exited" ELSE "raised")
            /\ IF exc = "SystemExit"   \* the process ends and its connections with it
                 THEN /\ alive' = FALSE /\ self_run' = 0 /\ self_config' = FALSE
                      /\ session' = "closed"
                 ELSE UNCHANGED <<alive, self_run, self_config, session>>
       ELSE UNCHANGED <<pc, exc, outcome, alive, self_run, self_config, session>>
  /\ UNCHANGED <<step_status, failed_order, store, fresh, locals, call_op, entered, int_log,
                 fail_log, saved, calls, dup_calls, last_step, budget>>
  /\ UNCHANGED node_get

Next ==
  \/ \E with_config \in BOOLEAN : __init__(with_config)
  \/ \E batch_size \in BatchSizes : execute_sync(batch_size)
  \/ \E batch_size \in BatchSizes : retry_sync(batch_size)
  \/ \E run_id \in 1..(NumRunsCreated + 1), batch_size \in BatchSizes :
       resume_sync(run_id, batch_size)
  \/ execute
  \/ execute_loop
  \/ retry
  \/ resume
  \/ _execute_remaining_steps
  \/ executor_execute
  \/ executor_set_completed
  \/ executor_set_errored
  \/ execute_finalize
  \/ _restart_from_step_finalize
  \/ _finalize_run_update
  \/ _finalize_run_return
  \/ wrapper_return
  \/ KeyboardInterrupt
  \/ \E user_input \in Answers : handle_stop_option(user_input)
  \/ handle_run_errors

Spec == Init /\ [][Next]_vars

(* -------------- Node.get and _prepare_nodes on their own --------------- *)
\* NodeStatus: the status a node carries in memory
NodeStatus == {"PENDING", "PROCESSED", "ERRORED"}

\* the rows a store may hold and the in-memory node lists that can be made of stored rows
FnRows == {[id |-> i, parent_node_id |-> 0, ablated |-> FALSE] : i \in 1..(NumRoots + 1)}
FnLists(rows) ==
  UNION {{{Mem(r, st[r.id]) : r \in sub} : st \in [Ids(sub) -> NodeStatus]} : sub \in SUBSET rows}
FnQueries ==
  {[int |-> TRUE, value |-> i] : i \in 1..(NumRoots + 2)}
    \cup {[int |-> FALSE, value |-> ids] : ids \in SUBSET (1..(NumRoots + 2))}

\* Node.get: node_ids is an int or a list of ints; the result is a Node or a list
get(node_ids) ==
  LET ids == IF node_ids.int THEN {node_ids.value} ELSE node_ids.value
      single_result == node_ids.int
      results == {n \in node_store : n.id \in ids}
  IN IF single_result /\ results # {}
       THEN [type |-> "Node", value |-> {CHOOSE n \in results : TRUE}]
       ELSE [type |-> "list", value |-> results]

\* any store, any node list made of it, either value of the first-step flag
FnInit ==
    /\ node_store \in SUBSET FnRows
    /\ input_nodes \in FnLists(node_store)
    /\ is_first_remaining_step \in BOOLEAN
    /\ pc = "call"
    /\ run_status = [r \in RunIds |-> "ABSENT"]
    /\ step_status = [s \in StepIds |-> "ABSENT"]
    /\ failed_order = <<>>
    /\ step_node = {}
    /\ alive = FALSE
    /\ fresh = FALSE
    /\ self_run = 0
    /\ self_config = FALSE
    /\ session = "none"
    /\ frames = <<>>
    /\ exc = "none"
    /\ restart_nodes = {}
    /\ remaining_steps = <<>>
    /\ cur_step = 0
    /\ nodes_to_process = {}
    /\ processed_nodes = {}
    /\ output_nodes = {}
    /\ executor_batch_size = 0
    /\ outcome = "none"
    /\ call_op = "none"
    /\ entered = <<>>
    /\ int_log = <<>>
    /\ fail_log = <<>>
    /\ saved = <<>>
    /\ calls = {}
    /\ dup_calls = {}
    /\ last_step = NoStep
    /\ node_get = NoGet
    /\ n_events = 0

\* Node.get(session, node_ids) is called
Node_get(node_ids) ==
  /\ pc = "call"
  /\ node_get' = [node_ids |-> node_ids, returned |-> get(node_ids)]
  /\ pc' = "got"
  /\ UNCHANGED <<ledger, store, object, session, frames, exc, locals, history, budget>>

\* _prepare_nodes(input_nodes, is_first_remaining_step) is called
call_prepare_nodes ==
  /\ pc = "call"
  /\ LET prepared == _prepare_nodes(input_nodes, is_first_remaining_step)
     IN /\ nodes_to_process' = prepared[1]
        /\ processed_nodes' = prepared[2]
  /\ pc' = "prepared"
  /\ UNCHANGED <<ledger, store, object, session, frames, exc, input_nodes, restart_nodes,
                 remaining_steps, cur_step, is_first_remaining_step, output_nodes,
                 executor_batch_size, history, node_get, budget>>

FnNext ==
  \/ \E node_ids \in FnQueries : Node_get(node_ids)
  \/ call_prepare_nodes

FnSpec == FnInit /\ [][FnNext]_vars

(* ------------------------------ claims -------------------------------- *)
LastInt == int_log[Len(int_log)]

\* the node set an uninterrupted execute() hands to the output saver
RECURSIVE Pipeline(_, _)
Pipeline(nodes, steps) ==
  IF steps = <<>> THEN nodes
  ELSE Pipeline({transform(Head(steps), n) : n \in nodes}, Tail(steps))

UninterruptedOutput(run) == Ids(Pipeline(load(run), StepsOfRun(run)))

\* C1: an execute() in which no step fails and no interruption occurs ends with the run
\* FINISHED and every step PROCESSED, the steps having been entered in ordinal order
\* S1..Sn, each exactly once.
C1_ExecuteRunsEveryStepInOrder ==
  (pc = "idle" /\ call_op = "execute" /\ int_log = <<>> /\ fail_log = <<>>)
    => /\ outcome = "returned"
       /\ self_run # 0
       /\ run_status[self_run] = "FINISHED"
       /\ \A p \in 1..NumSteps : step_status[StepId(self_run, p)] = "PROCESSED"
       /\ entered = StepsOfRun(self_run)

C1_Witness ==
  /\ pc = "idle" /\ call_op = "execute" /\ outcome = "returned"
  /\ int_log = <<>> /\ fail_log = <<>>
  /\ Len(entered) = NumSteps

C3_RestartSavesUninterruptedOutput ==
  \A i \in 1..Len(saved) :
    saved[i].op \in {"retry", "resume"} => saved[i].ids = UninterruptedOutput(saved[i].run)

\* C4 (as claimed): when a run is interrupted after Sk became PROCESSED and before the
\* PENDING step Sk+1 is entered, the resume of that run does not fail and starts its
\* step loop exactly at Sk+1.
C4_ResumeAtStepBoundary ==
  (/\ Len(frames) >= 2
   /\ Top.op = "resume"
   /\ Len(int_log) > 0
   /\ LastInt.boundary # 0
   /\ ~LastInt.stop
   /\ pc \in {"loop", "raise"})
    => /\ ~(pc = "raise" /\ fail_log # <<>> /\ fail_log[Len(fail_log)] = "not_found")
       /\ (is_first_remaining_step => Head(remaining_steps) = LastInt.boundary)

C6_DeclinedStopResumesFromStepTwo ==
  (/\ pc = "idle" /\ call_op = "execute"
   /\ Len(int_log) = 1
   /\ int_log[1].at = "step" /\ StepPos(int_log[1].step) = 2 /\ ~int_log[1].stop
   /\ fail_log = <<>>)
    => /\ outcome = "returned"
       /\ self_run = int_log[1].run
       /\ run_status[self_run] = "FINISHED"
       /\ entered = SubSeq(StepsOfRun(self_run), 1, 2)
                      \o SubSeq(StepsOfRun(self_run), 2, NumSteps)

C6_Witness ==
  /\ pc = "idle" /\ call_op = "execute" /\ outcome = "returned"
  /\ Len(int_log) = 1
  /\ int_log[1].at = "step" /\ StepPos(int_log[1].step) = 2 /\ ~int_log[1].stop
  /\ fail_log = <<>>

\* C7 (as claimed): after an interruption confirmed with "y" the process exits with the
\* run STOPPED, the output saver was never invoked for that run and the run was never
\* marked FINISHED; an answer other than "y" leaves the run's status as it was.
C7_ConfirmedStopExitsWithoutFinalizing ==
  /\ (pc = "idle" /\ outcome = "exited")
       => /\ run_status[LastInt.run] = "STOPPED"
          /\ \A i \in 1..Len(saved) : saved[i].run # LastInt.run
  /\ (pc = "start" /\ Len(frames) >= 2 /\ Len(int_log) > 0 /\ ~LastInt.stop)
       => run_status[LastInt.run] = LastInt.status_before

\* C8 (as claimed): an interruption that arrives while the output saver runs or before the
\* run is marked FINISHED leaves the run ERRORED once the call is over, whatever the answer.
C8_FinalizationInterruptEndsErrored ==
  pc = "idle"
    => \A i \in 1..Len(int_log) :
         int_log[i].at \in {"save", "mark"} => run_status[int_log[i].run] = "ERRORED"

\* C9: a call in which input loading, a step or the output saver failed ends by raising to
\* its caller, and at that moment the run the orchestrator holds is ERRORED; this includes
\* a failure inside the resume started after a declined interruption.
C9_FailureMarksRunErroredAndRaises ==
  (pc = "idle" /\ \E i \in 1..Len(fail_log) : fail_log[i] \in {"load", "step", "save"})
    => /\ outcome = "raised"
       /\ self_run # 0
       /\ run_status[self_run] = "ERRORED"

C9_Witness ==
  /\ pc = "idle" /\ outcome = "raised"
  /\ Len(int_log) > 0 /\ ~LastInt.stop
  /\ fail_log = <<"step">>

\* C10 (as claimed): every ERRORED or STOPPED run has a RUNNING or ERRORED step, so resume
\* finds a resume point, and no FINISHED run has one.
C10_ErroredAndStoppedRunsAreResumable ==
  \A r \in RunIds :
    /\ run_status[r] \in {"ERRORED", "STOPPED"} => get_step_to_resume(r) # 0
    /\ run_status[r] = "FINISHED" => get_step_to_resume(r) = 0

\* C11 (as claimed): once retry has found no errored step, or resume no resume point, the
\* failure travels to the caller without any Run or Step status changing, without a step
\* being entered and without the output saver being invoked, whatever run the object holds.
C11_ValidationFailureLeavesLedgerUntouched ==
  [][(/\ pc = "raise" /\ exc = "Exception"
      /\ fail_log # <<>> /\ fail_log[Len(fail_log)] = "not_found")
       => /\ run_status' = run_status
          /\ step_status' = step_status
          /\ entered' = entered
          /\ saved' = saved
          /\ pc' \in {"raise", "idle"}]_vars

InputIds(s) ==
  {l.node_id : l \in {k \in step_node : k.step_id = s /\ k.relationship_type = "input"}}
OutputIds(s) ==
  {l.node_id : l \in {k \in step_node : k.step_id = s /\ k.relationship_type = "output"}}

\* C14: a step is entered only when the step before it is PROCESSED and its output links
\* are persisted, the input recorded for it is exactly what the step before returned, and
\* no run ever has two RUNNING steps.
C14_StepsRunStrictlyInSequence ==
  /\ \A r \in RunIds :
       Cardinality({s \in StepIds : StepRun(s) = r /\ step_status[s] = "RUNNING"}) <= 1
  /\ \A s \in StepIds :
       (StepPos(s) > 1 /\ step_status[s] \in {"RUNNING", "PROCESSED", "ERRORED"})
         => /\ step_status[s - 1] = "PROCESSED"
            /\ OutputIds(s - 1) # {}
            /\ InputIds(s) = OutputIds(s - 1)

C14_Witness ==
  /\ pc = "step"
  /\ Len(frames) = 2
  /\ ~is_first_remaining_step
  /\ StepPos(cur_step) > 1
  /\ Todo = {}

\* C15 (as claimed): no ablated node is among the nodes handed to a step's transformation,
\* on a first run or on a restart, and no node is ever deleted from the store: every node
\* a step was linked to or derived a node from is still stored.
C15_AblatedNodesExcludedNeverDeleted ==
  /\ pc = "step" => \A n \in nodes_to_process : ~n.ablated
  /\ \A l \in step_node : l.node_id \in Ids(node_store)
  /\ \A c \in calls : c[2] \in Ids(node_store)

\* C17 (as claimed): when a call of execute, retry or resume is over (it returned, it
\* raised, or the process exited on a confirmed stop) the database session the
\* orchestrator opened has been released.
C17_SessionReleasedOnEveryExit ==
  (pc = "idle" /\ outcome \in {"returned", "raised", "exited"}) => session = "closed"

\* C19 (as claimed): every async-capable step executed as part of a call is handed the
\* batch size that call was given, also when it runs in the resume that follows a declined
\* interruption.
C19_BatchSizeReachesEveryStep ==
  (pc = "step" /\ has_execute_async(cur_step)) => executor_batch_size = frames[1].batch_size

\* C20 (as claimed): a call during which the user interrupted never returns normally
\* unless the run it worked on is FINISHED or STOPPED, also when the orchestrator held no
\* run at the time of the interruption.
C20_NoInterruptionSwallowed ==
  (pc = "idle" /\ outcome = "returned" /\ int_log # <<>>)
    => /\ self_run # 0
       /\ run_status[self_run] \in {"FINISHED", "STOPPED"}

\* C16 (as claimed): Node.get with one identifier returns the stored node with that id and
\* signals NotFound when there is none; with a list of identifiers it returns exactly the
\* stored nodes whose id is in the list.
C16_GetSignalsAbsence ==
  pc = "got"
    => LET q == node_get.node_ids
           r == node_get.returned
       IN IF q.int
            THEN IF q.value \in Ids(node_store)
                   THEN r.type = "Node" /\ r.value = {n \in node_store : n.id = q.value}
                   ELSE r.type = "NotFound"
            ELSE r.type = "list" /\ r.value = {n \in node_store : n.id \in q.value}

\* C18 (as claimed): at the first remaining step every node of the input is in exactly one
\* of the two lists _prepare_nodes returns, whatever its status.
C18_PrepareNodesLosesNoNode ==
  (pc = "prepared" /\ is_first_remaining_step)
    => /\ nodes_to_process \cup processed_nodes = input_nodes
       /\ nodes_to_process \cap processed_nodes = {}

\* C18 (amended): at the first remaining step every PENDING or PROCESSED node of the input
\* is in exactly one of the two lists (PENDING to process, PROCESSED passed through) and a
\* node with any other status (ERRORED) is in neither; at a later step the whole input is
\* to process.
C18_PrepareNodesKeepsPendingAndProcessed ==
  pc = "prepared"
    => IF is_first_remaining_step
         THEN /\ nodes_to_process \cup processed_nodes
                   = {n \in input_nodes : n.status \in {"PENDING", "PROCESSED"}}
              /\ nodes_to_process \cap processed_nodes = {}
              /\ \A n \in nodes_to_process : n.status = "PENDING"
              /\ \A n \in processed_nodes : n.status = "PROCESSED"
              /\ \A n \in input_nodes :
                   n.status = "ERRORED" => n \notin nodes_to_process \cup processed_nodes
         ELSE nodes_to_process = input_nodes /\ processed_nodes = {}

C18_Witness ==
  /\ pc = "prepared" /\ is_first_remaining_step
  /\ \E n \in input_nodes : n.status = "ERRORED"
  /\ nodes_to_process # {}
  /\ processed_nodes # {}

====
